---- MODULE Spec2Model ----
(***************************************************************************)
(* Tool handlers of the personal-assistant bot (functions.py, tools.py)    *)
(* and the Google OAuth credential manager they share.                     *)
(*                                                                         *)
(* Handlers are coroutines of one asyncio event loop: a handler gives up   *)
(* control only at an await (push_frame, result_callback), so everything   *)
(* between two awaits is one step.  A Python str is a sequence of text     *)
(* pieces (the pieces of an f-string, in order); json.dumps of a list is   *)
(* the list itself, carried in the field "json".                           *)
(***************************************************************************)
EXTENDS Integers, Sequences, FiniteSets, TLC

\* ---------------------------------------------------------------- bounds
MaxCalls == 2
MaxEvents == 2
MaxMailbox == 3
MaxClients == 2

Tasks == {"t1", "t2"}
Modules == {"functions", "tools"}
ToolNames == {"get_calendar_events", "get_gmail_emails", "send_whatsapp_reminder"}
GoogleTools == {"get_calendar_events", "get_gmail_emails"}

\* ------------------------------------------------- credentials and cache
\* creds = None
NoneCreds == [none |-> TRUE, token |-> FALSE, expired |-> FALSE, refresh_token |-> FALSE, gen |-> 0]

MkCreds(tok, exp, rt, g) ==
  [none |-> FALSE, token |-> tok, expired |-> exp, refresh_token |-> rt, gen |-> g]

\* token.json: absent, unparsable, or the JSON of a credential
AbsentFile == [exists |-> FALSE, parses |-> TRUE, creds |-> NoneCreds]
CorruptFile == [exists |-> TRUE, parses |-> FALSE, creds |-> NoneCreds]
FileOf(c) == [exists |-> TRUE, parses |-> TRUE, creds |-> c]

\* the credentials a token file can hold before the first call (generation 1)
InitialCreds == {MkCreds(tok, exp, rt, 1) : tok \in BOOLEAN, exp \in BOOLEAN, rt \in BOOLEAN}
InitialFiles == {AbsentFile, CorruptFile} \cup {FileOf(c) : c \in InitialCreds}

\* the test of validity turned around
ValidInverted(c) == ~(c.token /\ ~c.expired)

\* creds.valid: an access token that has not expired
Valid(c) == c.token /\ ~c.expired

\* the refresh token is not asked for
RefreshableWithoutToken(c) == ~c.none /\ c.expired

\* creds and creds.expired and creds.refresh_token
Refreshable(c) == ~c.none /\ c.expired /\ c.refresh_token

\* creds.refresh(Request()) on success: a new access token, the refresh token kept
Refreshed(c, g) == MkCreds(TRUE, FALSE, c.refresh_token, g)

\* flow.run_local_server(port=0) on success
Authorized(g) == MkCreds(TRUE, FALSE, TRUE, g)

\* the client-secret file is taken to be there
SecretAssumed(secret) == FALSE

\* not os.path.exists(credentials_path)
MissingSecret(secret) == ~secret

\* the credential is not saved
SaveNothing(file, c) == file

\* the credential is saved only when there is no token file yet
SaveTokenOnce(file, c) == IF file.exists THEN file ELSE FileOf(c)

\* with open(token_path, 'w') as token: token.write(creds.to_json())
SaveToken(file, c) == FileOf(c)

\* the token file was opened for writing before the step that failed
CredsRaiseTruncated(file, exc, eff, nr, nf) ==
  [raised |-> TRUE, exc |-> exc, creds |-> NoneCreds, file |-> CorruptFile,
   effects |-> eff, refreshes |-> nr, flows |-> nf, writes |-> 0]

\* get_google_credentials() raises: the token file is as the call found it
CredsRaise(file, exc, eff, nr, nf) ==
  [raised |-> TRUE, exc |-> exc, creds |-> NoneCreds, file |-> file,
   effects |-> eff, refreshes |-> nr, flows |-> nf, writes |-> 0]

CredsReturn(file, c, eff, nr, nf, nw) ==
  [raised |-> FALSE, exc |-> "", creds |-> c, file |-> file,
   effects |-> eff, refreshes |-> nr, flows |-> nf, writes |-> nw]

\* get_google_credentials() with a failed refresh going on to the interactive flow
GetGoogleCredentialsFallThrough(file, secret, refreshOK, flowOK, g) ==
  IF file.exists /\ ~file.parses
  THEN CredsRaise(file, "ValueError", <<"load">>, 0, 0)
  ELSE
    LET creds == IF file.exists THEN file.creds ELSE NoneCreds
        eff0 == IF file.exists THEN <<"load">> ELSE <<>>
        nr == IF Refreshable(creds) THEN 1 ELSE 0
        eff1 == IF Refreshable(creds) THEN eff0 \o <<"refresh">> ELSE eff0
    IN IF ~(creds.none \/ ~Valid(creds))
       THEN CredsReturn(file, creds, eff0, 0, 0, 0)
       ELSE IF Refreshable(creds) /\ refreshOK
            THEN CredsReturn(SaveToken(file, Refreshed(creds, g)), Refreshed(creds, g),
                             eff1 \o <<"write">>, 1, 0, 1)
            ELSE IF MissingSecret(secret)
                 THEN CredsRaise(file, "FileNotFoundError", eff1, nr, 0)
                 ELSE IF flowOK
                      THEN CredsReturn(SaveToken(file, Authorized(g)), Authorized(g),
                                       eff1 \o <<"flow", "write">>, nr, 1, 1)
                      ELSE CredsRaise(file, "FlowError", eff1 \o <<"flow">>, nr, 1)

\* get_google_credentials(): file is token.json, secret whether credentials.json
\* exists, refreshOK / flowOK what the network and the user let happen, g the
\* generation a newly issued credential gets.
GetGoogleCredentials(file, secret, refreshOK, flowOK, g) ==
  IF file.exists /\ ~file.parses
  THEN CredsRaise(file, "ValueError", <<"load">>, 0, 0)
  ELSE
    LET creds == IF file.exists THEN file.creds ELSE NoneCreds
        eff0 == IF file.exists THEN <<"load">> ELSE <<>>
    IN IF ~(creds.none \/ ~Valid(creds))
       THEN CredsReturn(file, creds, eff0, 0, 0, 0)
       ELSE IF Refreshable(creds)
            THEN IF refreshOK
                 THEN CredsReturn(SaveToken(file, Refreshed(creds, g)), Refreshed(creds, g),
                                  eff0 \o <<"refresh", "write">>, 1, 0, 1)
                 ELSE CredsRaise(file, "RefreshError", eff0 \o <<"refresh">>, 1, 0)
            ELSE IF MissingSecret(secret)
                 THEN CredsRaise(file, "FileNotFoundError", eff0, 0, 0)
                 ELSE IF flowOK
                      THEN CredsReturn(SaveToken(file, Authorized(g)), Authorized(g),
                                       eff0 \o <<"flow", "write">>, 0, 1, 1)
                      ELSE CredsRaise(file, "FlowError", eff0 \o <<"flow">>, 0, 1)

\* ------------------------------------------------------------ strings
\* a Python str: the pieces of text it is made of, or the JSON of a list
Str(pieces) == [isJson |-> FALSE, words |-> pieces, json |-> <<>>]

\* json.dumps(lst, indent=2)
JsonDumps(lst) == [isJson |-> TRUE, words |-> <<>>, json |-> lst]

NoStr == [isJson |-> FALSE, words |-> <<"<no value>">>, json |-> <<>>]

\* str(e): StopIteration() carries no message, the others their message
ExcStr(exc) == IF exc = "StopIteration" THEN <<>> ELSE <<exc>>

\* the error string is the exception's message alone
ErrorResultBare(tool, exc) == Str(ExcStr(exc))

\* f"Error retrieving calendar events: {str(e)}" and its two siblings
ErrorResult(tool, exc) ==
  Str((CASE tool = "get_calendar_events" -> <<"Error", " retrieving calendar events: ">>
         [] tool = "get_gmail_emails" -> <<"Error", " retrieving Gmail emails: ">>
         [] OTHER -> <<"Error", " sending WhatsApp reminder: ">>) \o ExcStr(exc))

StartsWithError(s) == ~s.isJson /\ Len(s.words) > 0 /\ s.words[1] = "Error"

\* --------------------------------------------------------- calendar data
\* the host's UTC offset in hours, used by datetime.astimezone()
LocalUtcOffset == -7

\* one side ('start' or 'end') of a provider event.  kind: "dateTime" an ISO
\* time that parses, "bad" a dateTime that does not, "date" an all-day date,
\* "empty" a dict with neither key, "absent" no such key in the event.
Slot(kind, h, m, off) == [kind |-> kind, h |-> h, m |-> m, off |-> off]
DateSlot == Slot("date", 0, 0, 0)
BadSlot == Slot("bad", 0, 0, 0)
EmptySlot == Slot("empty", 0, 0, 0)
AbsentSlot == Slot("absent", 0, 0, 0)

NoSummary == "<no summary key>"

Event(summary, start, end) == [summary |-> summary, start |-> start, end |-> end]

IsTimed(ev) == ev.start.kind = "dateTime" /\ ev.end.kind = "dateTime"
IsAllDay(ev) == ev.start.kind = "date" /\ ev.end.kind = "date"

\* a formatted time, "All day", or None
TimeText(hh, mm, ap) == [kind |-> "time", hh |-> hh, mm |-> mm, ap |-> ap]
AllDayText == [kind |-> "All day", hh |-> 0, mm |-> 0, ap |-> ""]
NoneText == [kind |-> "None", hh |-> 0, mm |-> 0, ap |-> ""]

\* datetime.fromisoformat(s.replace('Z', '+00:00')).astimezone(): the hour on
\* the host's clock of a time given with UTC offset off
LocalHour(slot) == (slot.h - slot.off + LocalUtcOffset + 48) % 24

\* strftime("%H:%M")
Strftime24(h24, m) == [kind |-> "time", hh |-> h24, mm |-> m, ap |-> ""]

\* strftime("%I:%M %p")
Strftime12(h24, m) ==
  TimeText(IF h24 % 12 = 0 THEN 12 ELSE h24 % 12, m, IF h24 < 12 THEN "AM" ELSE "PM")

FormatSlot(slot) == Strftime12(LocalHour(slot), slot.m)

Entry(summary, st, en) == [summary |-> summary, start_time |-> st, end_time |-> en]

Parsed(lst) == [raised |-> FALSE, exc |-> "", items |-> lst]
ParseRaise(exc) == [raised |-> TRUE, exc |-> exc, items |-> <<>>]

\* event.get('start', {}).get('dateTime') is truthy
HasDateTime(slot) == slot.kind \in {"dateTime", "bad"}

\* functions.py: one pass of the loop over events; Parsed(<<>>) when skipped
FunctionsEvent(ev) ==
  IF HasDateTime(ev.start) /\ HasDateTime(ev.end)
  THEN IF ev.start.kind = "bad" \/ ev.end.kind = "bad"
       THEN ParseRaise("ValueError")
       ELSE Parsed(<<Entry(IF ev.summary = NoSummary THEN "Untitled Event" ELSE ev.summary,
                           FormatSlot(ev.start), FormatSlot(ev.end))>>)
  ELSE Parsed(<<>>)

\* tools.py: the start time of one event
ToolsStart(slot) ==
  CASE slot.kind = "absent" -> ParseRaise("KeyError")
    [] slot.kind = "empty" -> ParseRaise("TypeError")
    [] slot.kind = "bad" -> ParseRaise("ValueError")
    [] slot.kind = "date" -> Parsed(<<AllDayText>>)
    [] OTHER -> Parsed(<<FormatSlot(slot)>>)

\* tools.py: the end time of one event
ToolsEnd(slot) ==
  CASE slot.kind \in {"absent", "empty"} -> Parsed(<<NoneText>>)
    [] slot.kind = "bad" -> ParseRaise("ValueError")
    [] slot.kind = "date" -> Parsed(<<AllDayText>>)
    [] OTHER -> Parsed(<<FormatSlot(slot)>>)

\* tools.py: one pass of the loop over events
ToolsEvent(ev) ==
  LET st == ToolsStart(ev.start)
      en == ToolsEnd(ev.end)
  IN IF st.raised THEN st
     ELSE IF en.raised THEN en
     ELSE Parsed(<<Entry(IF ev.summary = NoSummary THEN "No title" ELSE ev.summary,
                         st.items[1], en.items[1])>>)

RECURSIVE EventLoop(_, _, _)
\* the for loop over events of either module: filtered_events so far, the
\* events still to visit; it stops at the first exception
EventLoop(mod, events, filtered_events) ==
  IF events = <<>> THEN Parsed(filtered_events)
  ELSE LET one == IF mod = "functions" THEN FunctionsEvent(Head(events))
                  ELSE ToolsEvent(Head(events))
       IN IF one.raised THEN one
          ELSE EventLoop(mod, Tail(events), filtered_events \o one.items)

\* filtered_events = []; for event in events: ...
FilterEvents(mod, events) == EventLoop(mod, events, <<>>)

\* ------------------------------------------------------------ gmail data
\* messages().list(userId='me', maxResults=3)
GmailMaxResults == 3

\* bot.py, gmail_tool_definition: "Get the 2 most recent Gmail emails"
DescribedEmailCount == 2

NoSnippet == "<no snippet key>"

Header(name, value) == [name |-> name, value |-> value]

\* messages().get(format='metadata'): snippet, and payload.headers when present
Message(snippet, hasHeaders, headers) ==
  [snippet |-> snippet, hasHeaders |-> hasHeaders, headers |-> headers]

Min(a, b) == IF a <= b THEN a ELSE b

\* the ids list() returns: the first maxResults messages, in provider order
ListMessages(mailbox) == SubSeq(mailbox, 1, Min(GmailMaxResults, Len(mailbox)))

\* next(h['value'] for h in headers if h['name'] == name): the first match
FirstHeader(headers, name) ==
  LET idx == {i \in 1..Len(headers) : headers[i].name = name}
  IN IF idx = {} THEN [found |-> FALSE, value |-> ""]
     ELSE [found |-> TRUE, value |-> headers[CHOOSE i \in idx : \A j \in idx : i <= j].value]

Email(snippet, subject, sender) == [snippet |-> snippet, subject |-> subject, from |-> sender]

\* functions.py: one pass of the loop over message ids
FunctionsMessage(msg) ==
  LET subj == FirstHeader(msg.headers, "Subject")
      from == FirstHeader(msg.headers, "From")
  IN IF msg.snippet = NoSnippet \/ ~msg.hasHeaders THEN ParseRaise("KeyError")
     ELSE IF ~subj.found \/ ~from.found THEN ParseRaise("StopIteration")
     ELSE Parsed(<<Email(msg.snippet, subj.value, from.value)>>)

\* tools.py: one pass of the loop over message ids
ToolsMessage(msg) ==
  LET headers == IF msg.hasHeaders THEN msg.headers ELSE <<>>
      subj == FirstHeader(headers, "Subject")
      from == FirstHeader(headers, "From")
  IN Parsed(<<Email(IF msg.snippet = NoSnippet THEN "" ELSE msg.snippet,
                    IF subj.found THEN subj.value ELSE "No subject",
                    IF from.found THEN from.value ELSE "Unknown sender")>>)

RECURSIVE MessageLoop(_, _, _)
\* the for loop over message ids of either module: emails_list so far, the
\* messages still to fetch; it stops at the first exception
MessageLoop(mod, msgs, emails_list) ==
  IF msgs = <<>> THEN Parsed(emails_list)
  ELSE LET one == IF mod = "functions" THEN FunctionsMessage(Head(msgs))
                  ELSE ToolsMessage(Head(msgs))
       IN IF one.raised THEN one
          ELSE MessageLoop(mod, Tail(msgs), emails_list \o one.items)

\* emails_list = []; for msg in message_ids: ...
ExtractEmails(mod, msgs) == MessageLoop(mod, msgs, <<>>)

\* --------------------------------------------------------- whatsapp data
\* os.getenv("TWILIO_WHATSAPP_NUMBER"), os.getenv("RECIPIENT_NUMBER")
TWILIO_WHATSAPP_NUMBER == "+14155238886"
RECIPIENT_NUMBER == "+16507303690"

\* params.arguments: with or without the key "reminder_text"
Arguments(has, text) == [has |-> has, reminder_text |-> text]
NoArguments == Arguments(FALSE, "")

\* params.arguments.get("reminder_text", "")
ReminderText(args) == IF args.has THEN args.reminder_text ELSE ""

\* the numbers are passed as configured, without the channel prefix
WhatsAppMessageNoPrefix(args) ==
  [from_ |-> <<TWILIO_WHATSAPP_NUMBER>>,
   body |-> ReminderText(args),
   to |-> <<RECIPIENT_NUMBER>>]

\* client.messages.create(from_=from_number, body=reminder_text, to=to_number)
WhatsAppMessage(args) ==
  [from_ |-> <<"whatsapp:", TWILIO_WHATSAPP_NUMBER>>,
   body |-> ReminderText(args),
   to |-> <<"whatsapp:", RECIPIENT_NUMBER>>]

\* f"Reminder sent to WhatsApp successfully!"
WhatsAppResult(args) == Str(<<"Reminder sent to WhatsApp successfully!">>)

\* the arguments the LLM may give a tool
ArgumentPool == {NoArguments, Arguments(TRUE, "Standup at 9"), Arguments(TRUE, "")}
ArgsOf(tool) == IF tool = "send_whatsapp_reminder" THEN ArgumentPool ELSE {NoArguments}

\* -------------------------------------------------------- handler bodies
\* what the outside world lets happen during one run of a handler's body
Env(refreshOK, flowOK, providerOK, events, mailbox) ==
  [refreshOK |-> refreshOK, flowOK |-> flowOK, providerOK |-> providerOK,
   events |-> events, mailbox |-> mailbox, clientOK |-> TRUE]

\* what the outside world lets happen to send_whatsapp_reminder: whether
\* Client(account_sid, auth_token) is built, whether messages.create succeeds
TwilioEnv(clientOK, providerOK) ==
  [Env(TRUE, TRUE, providerOK, <<>>, <<>>) EXCEPT !.clientOK = clientOK]

\* the record of one call of get_google_credentials: the cache and the
\* client-secret file it found, and what it did
NoCredCall ==
  [called |-> FALSE, before |-> AbsentFile, secret |-> FALSE,
   out |-> CredsRaise(AbsentFile, "", <<>>, 0, 0)]
CredCall(file, secret, out) ==
  [called |-> TRUE, before |-> file, secret |-> secret, out |-> out]

\* fetched: the provider answered, with events or mailbox
BodyOut(raised, exc, result, file, cred, eff, sent, fetched, events, mailbox) ==
  [raised |-> raised, exc |-> exc, result |-> result, file |-> file, cred |-> cred,
   effects |-> eff, sent |-> sent, fetched |-> fetched, events |-> events,
   mailbox |-> mailbox]

\* get_calendar_events, from get_google_credentials() to json.dumps
CalendarBody(mod, file, secret, g, env) ==
  LET c == GetGoogleCredentials(file, secret, env.refreshOK, env.flowOK, g)
      call == CredCall(file, secret, c)
      p == FilterEvents(mod, env.events)
  IN IF c.raised
     THEN BodyOut(TRUE, c.exc, NoStr, c.file, call, c.effects, <<>>, FALSE, <<>>, <<>>)
     ELSE IF ~env.providerOK
     THEN BodyOut(TRUE, "HttpError", NoStr, c.file, call, c.effects \o <<"provider">>,
                  <<>>, FALSE, <<>>, <<>>)
     ELSE IF p.raised
     THEN BodyOut(TRUE, p.exc, NoStr, c.file, call, c.effects \o <<"provider">>,
                  <<>>, TRUE, env.events, <<>>)
     ELSE BodyOut(FALSE, "", JsonDumps(p.items), c.file, call,
                  c.effects \o <<"provider">>, <<>>, TRUE, env.events, <<>>)

\* get_gmail_emails, from get_google_credentials() to json.dumps
GmailBody(mod, file, secret, g, env) ==
  LET c == GetGoogleCredentials(file, secret, env.refreshOK, env.flowOK, g)
      call == CredCall(file, secret, c)
      p == ExtractEmails(mod, ListMessages(env.mailbox))
  IN IF c.raised
     THEN BodyOut(TRUE, c.exc, NoStr, c.file, call, c.effects, <<>>, FALSE, <<>>, <<>>)
     ELSE IF ~env.providerOK
     THEN BodyOut(TRUE, "HttpError", NoStr, c.file, call, c.effects \o <<"provider">>,
                  <<>>, FALSE, <<>>, <<>>)
     ELSE IF p.raised
     THEN BodyOut(TRUE, p.exc, NoStr, c.file, call, c.effects \o <<"provider">>,
                  <<>>, TRUE, <<>>, env.mailbox)
     ELSE BodyOut(FALSE, "", JsonDumps(p.items), c.file, call,
                  c.effects \o <<"provider">>, <<>>, TRUE, <<>>, env.mailbox)

\* send_whatsapp_reminder, from params.arguments.get to the result string
WhatsAppBody(args, file, env) ==
  IF ~env.clientOK
  THEN BodyOut(TRUE, "TwilioException", NoStr, file, NoCredCall, <<>>,
               <<>>, FALSE, <<>>, <<>>)
  ELSE IF ~env.providerOK
  THEN BodyOut(TRUE, "TwilioRestException", NoStr, file, NoCredCall, <<"provider">>,
               <<WhatsAppMessage(args)>>, FALSE, <<>>, <<>>)
  ELSE BodyOut(FALSE, "", WhatsAppResult(args), file, NoCredCall, <<"provider">>,
               <<WhatsAppMessage(args)>>, FALSE, <<>>, <<>>)

\* the body of the try block between the spoken acknowledgement and the
\* result delivery
Body(mod, tool, args, file, secret, g, env) ==
  CASE tool = "get_calendar_events" -> CalendarBody(mod, file, secret, g, env)
    [] tool = "get_gmail_emails" -> GmailBody(mod, file, secret, g, env)
    [] OTHER -> WhatsAppBody(args, file, env)

\* the handler ends without a return value
ReturnNothing(s) == NoStr

\* return result / return error_result
ReturnValue(s) == s

\* ------------------------------------------------------------------ state
VARIABLES
  tokenFile,     \* token.json
  secretExists,  \* whether credentials.json exists
  module,        \* the handler module the bot imports: functions or tools
  calls,         \* handler invocations so far
  issued,        \* the generation of the last credential issued
  task,          \* per coroutine slot: position and locals of the handler
  messages,      \* bot.py: the conversation messages given to the LLM context
  queued,        \* bot.py: the frames queued on the pipeline task
  pipeline,      \* bot.py: the pipeline task, running or cancelled
  connects,      \* client-connected events so far
  disconnects    \* client-disconnected events so far

botVars == <<messages, queued, pipeline, connects, disconnects>>

vars == <<tokenFile, secretExists, module, calls, issued, task,
          messages, queued, pipeline, connects, disconnects>>

\* messages = [{"role": "system", "content": "You are a helpful ..."}]
SystemPrompt == [role |-> "system", content |-> "You are a helpful and friendly personal assistant named James. ..."]

\* the instruction on_client_connected appends
GreetingInstruction ==
  [role |-> "system",
   content |-> "Start by greeting the user with: 'Good morning! Are you ready to start the day?'"]

\* LLMRunFrame(): the run it starts reads the context, which holds n messages
\* when the frame is queued
LLMRunFrame(n) == [frame |-> "LLMRunFrame", context |-> n]

IdleTask ==
  [pc |-> "idle", tool |-> "", args |-> NoArguments, passed |-> <<>>, ret |-> NoStr,
   tryExc |-> "", effects |-> <<>>, cred |-> NoCredCall, fetched |-> FALSE,
   events |-> <<>>,
   mailbox |-> <<>>, sent |-> <<>>, expiredAtStart |-> FALSE, peers |-> {}]

Init ==
  /\ tokenFile \in InitialFiles
  /\ secretExists \in BOOLEAN
  /\ module \in Modules
  /\ calls = 0
  /\ issued = 1
  /\ task = [t \in Tasks |-> IdleTask]
  /\ messages = <<SystemPrompt>>
  /\ queued = <<>>
  /\ pipeline = "running"
  /\ connects = 0
  /\ disconnects = 0

\* the handler is entered: a fresh frame for the coroutine.  peers are the
\* handlers in flight that have yet to call get_google_credentials.
Entered(t, tool, args) ==
  [IdleTask EXCEPT !.tool = tool, !.args = args,
                   !.expiredAtStart = tokenFile.parses /\ Refreshable(tokenFile.creds),
                   !.peers = {u \in Tasks \ {t} : task[u].pc = "ack"}]

\* the try body runs from rec to its await of result_callback, or raises into
\* the except block, which awaits result_callback(error_result)
RunBody(t, rec, env) ==
  \E b \in {Body(module, rec.tool, rec.args, tokenFile, secretExists, issued + 1, env)} :
     /\ tokenFile' = b.file
     /\ issued' = IF b.cred.called /\ b.cred.out.writes > 0 THEN issued + 1 ELSE issued
     /\ task' = [task EXCEPT ![t] =
          [rec EXCEPT !.pc = IF b.raised THEN "sinkErr" ELSE "sink",
                      !.passed = <<IF b.raised THEN ErrorResult(rec.tool, b.exc) ELSE b.result>>,
                      !.tryExc = b.exc,
                      !.effects = @ \o b.effects \o <<"sink">>,
                      !.cred = b.cred,
                      !.fetched = b.fetched,
                      !.events = b.events,
                      !.mailbox = b.mailbox,
                      !.sent = b.sent]]

\* functions.py without the spoken acknowledgement
StartFunctionsSilent(t, tools) ==
  /\ module = "functions"
  /\ task[t].pc = "idle"
  /\ calls < MaxCalls
  /\ calls' = calls + 1
  /\ \E tool \in tools : \E args \in ArgsOf(tool) :
       task' = [task EXCEPT ![t] = [Entered(t, tool, args) EXCEPT !.pc = "ack"]]
  /\ UNCHANGED <<tokenFile, secretExists, module, issued>>
  /\ UNCHANGED botVars

\* functions.py: the handler starts and awaits push_frame(TTSSpeakFrame(...))
StartFunctions(t, tools) ==
  /\ module = "functions"
  /\ task[t].pc = "idle"
  /\ calls < MaxCalls
  /\ calls' = calls + 1
  /\ \E tool \in tools : \E args \in ArgsOf(tool) :
       task' = [task EXCEPT ![t] =
         [Entered(t, tool, args) EXCEPT !.pc = "ack", !.effects = <<"ack">>]]
  /\ UNCHANGED <<tokenFile, secretExists, module, issued>>
  /\ UNCHANGED botVars

\* tools.py: the handler starts and runs, with no await, up to result_callback
StartTools(t, tools, envs) ==
  /\ module = "tools"
  /\ task[t].pc = "idle"
  /\ calls < MaxCalls
  /\ calls' = calls + 1
  /\ \E tool \in tools : \E args \in ArgsOf(tool), env \in envs[tool] :
       RunBody(t, Entered(t, tool, args), env)
  /\ UNCHANGED <<secretExists, module>>
  /\ UNCHANGED botVars

\* functions.py: push_frame returns and the body runs up to result_callback
AckReturns(t, envs) ==
  /\ task[t].pc = "ack"
  /\ \E env \in envs[task[t].tool] : RunBody(t, task[t], env)
  /\ UNCHANGED <<secretExists, module, calls>>
  /\ UNCHANGED botVars

\* functions.py: push_frame raises; the except block awaits
\* result_callback(error_result)
AckRaises(t) ==
  /\ task[t].pc = "ack"
  /\ task' = [task EXCEPT ![t].pc = "sinkErr",
                          ![t].tryExc = "FrameError",
                          ![t].passed = <<ErrorResult(task[t].tool, "FrameError")>>,
                          ![t].effects = @ \o <<"sink">>]
  /\ UNCHANGED <<tokenFile, secretExists, module, calls, issued>>
  /\ UNCHANGED botVars

\* await params.result_callback(result) returns: return result
SinkReturns(t) ==
  /\ task[t].pc = "sink"
  /\ task' = [task EXCEPT ![t].pc = "returned",
                          ![t].ret = ReturnValue(task[t].passed[Len(task[t].passed)])]
  /\ UNCHANGED <<tokenFile, secretExists, module, calls, issued>>
  /\ UNCHANGED botVars

\* await params.result_callback(result) raises inside the try block: the except
\* block awaits result_callback(error_result)
SinkRaises(t) ==
  /\ task[t].pc = "sink"
  /\ task' = [task EXCEPT ![t].pc = "sinkErr",
                          ![t].tryExc = "SinkError",
                          ![t].passed = @ \o <<ErrorResult(task[t].tool, "SinkError")>>,
                          ![t].effects = @ \o <<"sink">>]
  /\ UNCHANGED <<tokenFile, secretExists, module, calls, issued>>
  /\ UNCHANGED botVars

\* await params.result_callback(error_result) returns: return error_result
ErrorSinkReturns(t) ==
  /\ task[t].pc = "sinkErr"
  /\ task' = [task EXCEPT ![t].pc = "returned",
                          ![t].ret = ReturnValue(task[t].passed[Len(task[t].passed)])]
  /\ UNCHANGED <<tokenFile, secretExists, module, calls, issued>>
  /\ UNCHANGED botVars

\* await params.result_callback(error_result) raises inside the except block:
\* nothing catches it, the handler raises to its caller
ErrorSinkRaises(t) ==
  /\ task[t].pc = "sinkErr"
  /\ task' = [task EXCEPT ![t].pc = "raised"]
  /\ UNCHANGED <<tokenFile, secretExists, module, calls, issued>>
  /\ UNCHANGED botVars

\* the framework takes the finished coroutine away; the slot is free again
Reap(t) ==
  /\ task[t].pc \in {"returned", "raised"}
  /\ task' = [task EXCEPT ![t] = IdleTask]
  /\ UNCHANGED <<tokenFile, secretExists, module, calls, issued>>
  /\ UNCHANGED botVars

\* time passes: the cached access token reaches its expiry
TokenExpires ==
  /\ tokenFile.exists /\ tokenFile.parses /\ ~tokenFile.creds.expired
  /\ tokenFile' = FileOf([tokenFile.creds EXCEPT !.expired = TRUE])
  /\ UNCHANGED <<secretExists, module, calls, issued, task>>
  /\ UNCHANGED botVars

\* bot.py: on_client_connected, with the frame queued before the instruction
\* is appended
OnClientConnectedQueuesFirst ==
  /\ connects < MaxClients
  /\ connects' = connects + 1
  /\ queued' = Append(queued, LLMRunFrame(Len(messages)))
  /\ messages' = Append(messages, GreetingInstruction)
  /\ UNCHANGED <<pipeline, disconnects>>
  /\ UNCHANGED <<tokenFile, secretExists, module, calls, issued, task>>

\* bot.py: on_client_connected appends the greeting instruction to messages,
\* then queues one LLMRunFrame on the task
OnClientConnected ==
  /\ connects < MaxClients
  /\ connects' = connects + 1
  /\ \E appended \in {Append(messages, GreetingInstruction)} :
       /\ messages' = appended
       /\ queued' = Append(queued, LLMRunFrame(Len(appended)))
  /\ UNCHANGED <<pipeline, disconnects>>
  /\ UNCHANGED <<tokenFile, secretExists, module, calls, issued, task>>

\* bot.py: on_client_disconnected cancels the pipeline task; a client that
\* disconnects has connected before
OnClientDisconnected ==
  /\ disconnects < connects
  /\ disconnects' = disconnects + 1
  /\ pipeline' = "cancelled"
  /\ UNCHANGED <<messages, queued, connects>>
  /\ UNCHANGED <<tokenFile, secretExists, module, calls, issued, task>>

\* ------------------------------------------------- inputs of the handlers
Standup == Event("Standup", Slot("dateTime", 16, 0, 0), Slot("dateTime", 17, 0, 0))
Lunch == Event("Lunch", Slot("dateTime", 12, 30, -7), Slot("dateTime", 13, 30, -7))
LateCall == Event(NoSummary, Slot("dateTime", 6, 45, 0), Slot("dateTime", 7, 15, 0))
Holiday == Event("Holiday", DateSlot, DateSlot)
Garbled == Event("Garbled", BadSlot, Slot("dateTime", 9, 0, 0))
OpenEnded == Event("OpenEnded", Slot("dateTime", 9, 0, 0), AbsentSlot)
NoStart == Event("NoStart", AbsentSlot, EmptySlot)

EventPool == {Standup, Lunch, LateCall, Holiday, Garbled, OpenEnded, NoStart}

FullMail == Message("see you at 5", TRUE,
                    <<Header("To", "me"), Header("Subject", "Livestream"),
                      Header("From", "ann@example.com"), Header("Subject", "Re: Livestream")>>)
NoSubjectMail == Message("hello", TRUE, <<Header("From", "bob@example.com")>>)
NoFromMail == Message("update", TRUE, <<Header("Subject", "GenAI trends")>>)
BareMail == Message(NoSnippet, FALSE, <<>>)

MessagePool == {FullMail, NoSubjectMail, NoFromMail, BareMail}


SeqsUpTo(S, n) == UNION {[1..k -> S] : k \in 0..n}

\* the environments that matter to a tool, given the provider answers on offer
Envs(tool, eventLists, mailboxes) ==
  CASE tool = "get_calendar_events" ->
         {Env(r, f, FALSE, <<>>, <<>>) : r \in BOOLEAN, f \in BOOLEAN}
         \cup {Env(r, f, TRUE, ev, <<>>) : r \in BOOLEAN, f \in BOOLEAN, ev \in eventLists}
    [] tool = "get_gmail_emails" ->
         {Env(r, f, FALSE, <<>>, <<>>) : r \in BOOLEAN, f \in BOOLEAN}
         \cup {Env(r, f, TRUE, <<>>, mb) : r \in BOOLEAN, f \in BOOLEAN, mb \in mailboxes}
    [] OTHER -> {TwilioEnv(c, p) : c \in BOOLEAN, p \in BOOLEAN}

\* one handler at a time: every provider answer within the bounds
EventLists == SeqsUpTo(EventPool, MaxEvents)
Mailboxes == SeqsUpTo(MessagePool, MaxMailbox)
AllEnvs == [tool \in ToolNames |-> Envs(tool, EventLists, Mailboxes)]

\* two handlers at once: one provider answer each
RaceEnvs == [tool \in GoogleTools |-> Envs(tool, {<<Standup>>}, {<<FullMail>>})]

\* --------------------------------------------- one handler at a time
Main == "t1"

Next ==
  \/ StartFunctions(Main, ToolNames)
  \/ StartTools(Main, ToolNames, AllEnvs)
  \/ AckReturns(Main, AllEnvs)
  \/ AckRaises(Main)
  \/ SinkReturns(Main)
  \/ SinkRaises(Main)
  \/ ErrorSinkReturns(Main)
  \/ ErrorSinkRaises(Main)
  \/ Reap(Main)
  \/ TokenExpires

Spec == Init /\ [][Next]_vars

\* ------------------------------- handlers in flight at once, one event loop
NextRace ==
  \/ \E t \in Tasks : StartFunctions(t, GoogleTools)
  \/ \E t \in Tasks : StartTools(t, GoogleTools, RaceEnvs)
  \/ \E t \in Tasks : AckReturns(t, RaceEnvs)
  \/ \E t \in Tasks : AckRaises(t)
  \/ \E t \in Tasks : SinkReturns(t)
  \/ \E t \in Tasks : SinkRaises(t)
  \/ \E t \in Tasks : ErrorSinkReturns(t)
  \/ \E t \in Tasks : ErrorSinkRaises(t)
  \/ \E t \in Tasks : Reap(t)
  \/ TokenExpires

SpecRace == Init /\ [][NextRace]_vars

\* ------------------- the bot: transport events and the tool calls of the LLM
\* the LLM calls a tool only in a generation of the running pipeline, and a
\* generation needs a client
NextBot ==
  \/ OnClientConnected
  \/ OnClientDisconnected
  \/ pipeline = "running" /\ connects > 0 /\ StartFunctions(Main, GoogleTools)
  \/ pipeline = "running" /\ connects > 0 /\ StartTools(Main, GoogleTools, RaceEnvs)
  \/ AckReturns(Main, RaceEnvs)
  \/ AckRaises(Main)
  \/ SinkReturns(Main)
  \/ SinkRaises(Main)
  \/ ErrorSinkReturns(Main)
  \/ ErrorSinkRaises(Main)
  \/ Reap(Main)
  \/ TokenExpires

SpecBot == Init /\ [][NextBot]_vars

\* ------------------------------------------------------------ properties
LastPassed(t) == task[t].passed[Len(task[t].passed)]

\* the token file held a credential that loaded
Loaded(call) == call.before.exists /\ call.before.parses

CachedValid(call) ==
  Loaded(call) /\ call.before.creds.token /\ ~call.before.creds.expired

CachedExpiredRefreshable(call) ==
  Loaded(call) /\ call.before.creds.expired /\ call.before.creds.refresh_token

\* no usable cached token: no file, or a loaded credential that is neither
\* valid nor refreshable
NeedsInteractive(call) ==
  \/ ~call.before.exists
  \/ /\ Loaded(call)
     /\ ~(call.before.creds.token /\ ~call.before.creds.expired)
     /\ ~(call.before.creds.expired /\ call.before.creds.refresh_token)

\* C1: whenever a handler has returned, on the success path or the exception
\* path, of either module and any tool, the string it returned is the string it
\* passed to result_callback in the call that let it return (its last call).
C1_ReturnEqualsDelivered ==
  \A t \in Tasks :
    task[t].pc = "returned" =>
      /\ task[t].passed # <<>>
      /\ task[t].ret = LastPassed(t)

\* a handler returned on its exception path
C1_Witness ==
  \E t \in Tasks : task[t].pc = "returned" /\ task[t].tryExc = "TwilioRestException"

\* C2 as stated: an exception at any step, result delivery included, is caught,
\* so no handler ever raises to its caller, and a handler that met an exception
\* returns a string starting with "Error".
C2_NeverRaises ==
  \A t \in Tasks :
    /\ task[t].pc # "raised"
    /\ (task[t].pc = "returned" /\ task[t].tryExc # "") => StartsWithError(task[t].ret)

\* C2 amended: an exception raised inside the try block (acknowledgement,
\* credentials, provider call, parsing, or the delivery of the result) is caught:
\* a string starting with "Error" is passed to result_callback, and the handler
\* returns that string if that delivery returns; the handler raises to its
\* caller only when the delivery of the error string itself raised.
C2_CaughtUnlessErrorDeliveryFails ==
  \A t \in Tasks :
    /\ task[t].tryExc # "" =>
         /\ task[t].pc \in {"sinkErr", "returned", "raised"}
         /\ StartsWithError(LastPassed(t))
    /\ (task[t].pc = "returned" /\ task[t].tryExc # "") =>
         /\ StartsWithError(task[t].ret)
         /\ task[t].ret = LastPassed(t)
    /\ task[t].pc = "raised" =>
         /\ task[t].tryExc # ""
         /\ StartsWithError(LastPassed(t))
    /\ task[t].pc = "sink" => task[t].tryExc = ""

\* the delivery of the result raised, the delivery of the error string returned
C2_Witness ==
  \E t \in Tasks :
    /\ task[t].pc = "returned" /\ task[t].tryExc = "SinkError"
    /\ Len(task[t].passed) = 2

\* C3: a call that found a valid, unexpired credential in the token file
\* returned that credential, called neither refresh nor the interactive flow,
\* and left the token file as it was.
C3_ValidCacheUsedAsIs ==
  \A t \in Tasks :
    (task[t].cred.called /\ CachedValid(task[t].cred)) =>
      /\ ~task[t].cred.out.raised
      /\ task[t].cred.out.creds = task[t].cred.before.creds
      /\ task[t].cred.out.refreshes = 0
      /\ task[t].cred.out.flows = 0
      /\ task[t].cred.out.writes = 0
      /\ task[t].cred.out.file = task[t].cred.before

C3_Witness ==
  \E t \in Tasks :
    /\ task[t].cred.called /\ CachedValid(task[t].cred)
    /\ task[t].pc = "returned" /\ task[t].tryExc = ""

\* C4: a call that found an expired credential with a refresh token called
\* refresh exactly once and never the interactive flow; if it returned, the
\* credential it returned is the refreshed one (a new, unexpired access token)
\* and the token file holds exactly that credential.
C4_ExpiredCacheRefreshedOnce ==
  \A t \in Tasks :
    (task[t].cred.called /\ CachedExpiredRefreshable(task[t].cred)) =>
      /\ task[t].cred.out.refreshes = 1
      /\ task[t].cred.out.flows = 0
      /\ ~task[t].cred.out.raised =>
           /\ task[t].cred.out.creds.token /\ ~task[t].cred.out.creds.expired
           /\ task[t].cred.out.creds.gen > task[t].cred.before.creds.gen
           /\ task[t].cred.out.writes = 1
           /\ task[t].cred.out.file = FileOf(task[t].cred.out.creds)

C4_Witness ==
  \E t \in Tasks :
    /\ task[t].cred.called /\ CachedExpiredRefreshable(task[t].cred)
    /\ ~task[t].cred.out.raised

\* C5: a call that found no usable cached token while the client-secret file
\* existed ran the interactive flow exactly once and never refresh; if it
\* returned, it returned the newly obtained credential and the token file holds
\* exactly that credential.
C5_InteractiveFlowOnceThenSaved ==
  \A t \in Tasks :
    (task[t].cred.called /\ NeedsInteractive(task[t].cred) /\ task[t].cred.secret) =>
      /\ task[t].cred.out.flows = 1
      /\ task[t].cred.out.refreshes = 0
      /\ ~task[t].cred.out.raised =>
           /\ task[t].cred.out.creds.token /\ ~task[t].cred.out.creds.expired
           /\ task[t].cred.out.creds.gen > task[t].cred.before.creds.gen
           /\ task[t].cred.out.writes = 1
           /\ task[t].cred.out.file = FileOf(task[t].cred.out.creds)

\* an expired credential without a refresh token was replaced through the flow
C5_Witness ==
  \E t \in Tasks :
    /\ task[t].cred.called /\ task[t].cred.secret /\ Loaded(task[t].cred)
    /\ task[t].cred.before.creds.expired /\ ~task[t].cred.before.creds.refresh_token
    /\ ~task[t].cred.out.raised /\ task[t].cred.out.flows = 1

\* C6: a call that needed interactive authorization while the client-secret
\* file did not exist raised FileNotFoundError: no flow was started, the token
\* file was not written, and the handler that made the call passed an error
\* string, not a result, to result_callback.
C6_MissingSecretIsFatal ==
  \A t \in Tasks :
    (task[t].cred.called /\ NeedsInteractive(task[t].cred) /\ ~task[t].cred.secret) =>
      /\ task[t].cred.out.raised
      /\ task[t].cred.out.exc = "FileNotFoundError"
      /\ task[t].cred.out.flows = 0
      /\ task[t].cred.out.refreshes = 0
      /\ task[t].cred.out.writes = 0
      /\ task[t].cred.out.file = task[t].cred.before
      /\ task[t].tryExc = "FileNotFoundError"
      /\ task[t].passed[1] = ErrorResult(task[t].tool, "FileNotFoundError")
      /\ StartsWithError(task[t].passed[1])
      /\ task[t].pc = "returned" => StartsWithError(task[t].ret)

C6_Witness ==
  \E t \in Tasks :
    /\ task[t].cred.called /\ ~task[t].cred.before.exists /\ ~task[t].cred.secret
    /\ task[t].pc = "returned"

\* C7 as stated: when the refresh of an expired cached credential fails, the
\* call goes on to the interactive flow (or fails on the missing client-secret
\* file); it does not end with the refresh error.
C7_RefreshFailureFallsThrough ==
  \A t \in Tasks :
    (task[t].cred.called /\ task[t].cred.out.refreshes = 1 /\ task[t].cred.out.raised) =>
      /\ task[t].cred.out.exc # "RefreshError"
      /\ task[t].cred.out.flows = 1 \/ task[t].cred.out.exc = "FileNotFoundError"

\* C7 amended: when the refresh of an expired cached credential fails, the call
\* ends with the refresh error: the interactive flow is not run, the token file
\* is not written, and the calling handler passes an error string to
\* result_callback.
C7_RefreshFailureEndsCall ==
  \A t \in Tasks :
    (task[t].cred.called /\ task[t].cred.out.refreshes = 1 /\ task[t].cred.out.raised) =>
      /\ task[t].cred.out.exc = "RefreshError"
      /\ task[t].cred.out.flows = 0
      /\ task[t].cred.out.writes = 0
      /\ task[t].cred.out.file = task[t].cred.before
      /\ task[t].tryExc = "RefreshError"
      /\ task[t].passed[1] = ErrorResult(task[t].tool, "RefreshError")

\* a refresh failed while the client-secret file existed
C7_Witness ==
  \E t \in Tasks :
    /\ task[t].cred.called /\ task[t].cred.out.refreshes = 1 /\ task[t].cred.out.raised
    /\ task[t].cred.secret

\* handler t got credentials back from its call of get_google_credentials
GotCreds(t) == task[t].cred.called /\ ~task[t].cred.out.raised

\* t was entered while u was in flight, neither had read the token file yet,
\* and the cached token was expired and refreshable; both have since got
\* their credentials
RacedOnExpired(t, u) ==
  /\ t # u
  /\ u \in task[t].peers
  /\ task[t].expiredAtStart
  /\ GotCreds(t) /\ GotCreds(u)

Is12Hour(x) ==
  x.kind = "time" /\ x.hh \in 1..12 /\ x.mm \in 0..59 /\ x.ap \in {"AM", "PM"}

\* every provider event is timed (start and end dateTime) or all-day
TimedOrAllDay(events) ==
  \A i \in 1..Len(events) : IsTimed(events[i]) \/ IsAllDay(events[i])

SameSummary(entry, ev) == ev.summary # NoSummary => entry.summary = ev.summary

\* C9: when the provider answered with N events, each timed or all-day, K of
\* them timed, get_calendar_events passes to result_callback the JSON of a
\* list, in provider order, of the K timed events in functions.py and of all N
\* events in tools.py (the all-day ones as "All day"); every timed entry has
\* 12-hour start and end times.
C9_CalendarEntries ==
  \A t \in Tasks :
    (task[t].tool = "get_calendar_events" /\ task[t].fetched
       /\ TimedOrAllDay(task[t].events)) =>
      LET events == task[t].events
          timed == SelectSeq(events, IsTimed)
          out == task[t].passed[1]
      IN /\ out.isJson
         /\ module = "functions" =>
              /\ Len(out.json) = Len(timed)
              /\ \A j \in 1..Len(timed) :
                   /\ SameSummary(out.json[j], timed[j])
                   /\ Is12Hour(out.json[j].start_time)
                   /\ Is12Hour(out.json[j].end_time)
                   /\ out.json[j].start_time.mm = timed[j].start.m
         /\ module = "tools" =>
              /\ Len(out.json) = Len(events)
              /\ \A i \in 1..Len(events) :
                   /\ SameSummary(out.json[i], events[i])
                   /\ IsTimed(events[i]) =>
                        /\ Is12Hour(out.json[i].start_time)
                        /\ Is12Hour(out.json[i].end_time)
                        /\ out.json[i].start_time.mm = events[i].start.m
                   /\ IsAllDay(events[i]) =>
                        /\ out.json[i].start_time = AllDayText
                        /\ out.json[i].end_time = AllDayText

\* functions.py returned one entry for two events, one timed and one all-day
C9_Witness ==
  \E t \in Tasks :
    /\ task[t].tool = "get_calendar_events" /\ task[t].fetched /\ module = "functions"
    /\ task[t].events = <<Holiday, Lunch>>
    /\ task[t].pc = "returned" /\ task[t].ret.isJson /\ Len(task[t].ret.json) = 1
    /\ task[t].ret.json[1].start_time = TimeText(12, 30, "PM")

\* every listed message has a snippet and a header list
WellFormed(msgs) ==
  \A i \in 1..Len(msgs) : msgs[i].snippet # NoSnippet /\ msgs[i].hasHeaders

\* C10: when a fetched message lacks a Subject or a From header,
\* get_gmail_emails still passes to result_callback the JSON of the full list,
\* one entry per listed message, with a placeholder in the missing field.
C10_MissingHeaderGetsPlaceholder ==
  \A t \in Tasks :
    (task[t].tool = "get_gmail_emails" /\ task[t].fetched
       /\ WellFormed(ListMessages(task[t].mailbox))) =>
      LET msgs == ListMessages(task[t].mailbox)
          out == task[t].passed[1]
      IN /\ out.isJson
         /\ Len(out.json) = Len(msgs)
         /\ \A i \in 1..Len(msgs) :
              /\ out.json[i].snippet = msgs[i].snippet
              /\ out.json[i].subject # ""
              /\ out.json[i].from # ""

\* every listed message has a snippet, a Subject header and a From header
Complete(msgs) ==
  /\ WellFormed(msgs)
  /\ \A i \in 1..Len(msgs) :
       /\ FirstHeader(msgs[i].headers, "Subject").found
       /\ FirstHeader(msgs[i].headers, "From").found

\* C11: for a mailbox of at least 3 messages, get_gmail_emails as the bot
\* registers and describes it passes to result_callback the JSON of exactly 2
\* entries, the 2 most recent messages in the order the provider listed them.
C11_ReturnsTwoMostRecent ==
  \A t \in Tasks :
    (task[t].tool = "get_gmail_emails" /\ task[t].fetched
       /\ Len(task[t].mailbox) >= 3 /\ Complete(ListMessages(task[t].mailbox))) =>
      LET out == task[t].passed[1]
      IN /\ out.isJson
         /\ Len(out.json) = DescribedEmailCount
         /\ \A i \in 1..DescribedEmailCount :
              out.json[i].snippet = task[t].mailbox[i].snippet

\* the send_whatsapp_reminder handler t got as far as building the Twilio
\* client: the acknowledgement and the client construction did not fail
ReachedSend(t) ==
  /\ task[t].tool = "send_whatsapp_reminder"
  /\ task[t].pc \in {"sink", "sinkErr", "returned", "raised"}
  /\ task[t].tryExc \notin {"FrameError", "TwilioException"}

\* C12: an invocation of send_whatsapp_reminder calls messages.create at most
\* once: exactly once when no earlier step failed, also when the provider then
\* failed (no retry), and not at all when an earlier step failed; the call has
\* from = "whatsapp:" + TWILIO_WHATSAPP_NUMBER, to = "whatsapp:" +
\* RECIPIENT_NUMBER and body = the reminder_text argument.
C12_OneSendWithPrefixes ==
  \A t \in Tasks :
    task[t].tool = "send_whatsapp_reminder" =>
      /\ Len(task[t].sent) <= 1
      /\ ReachedSend(t) => Len(task[t].sent) = 1
      /\ task[t].tryExc \in {"FrameError", "TwilioException"} => task[t].sent = <<>>
      /\ \A i \in 1..Len(task[t].sent) :
           /\ task[t].sent[i].from_ = <<"whatsapp:", "+14155238886">>
           /\ task[t].sent[i].to = <<"whatsapp:", "+16507303690">>
           /\ task[t].sent[i].body =
                (IF task[t].args.has THEN task[t].args.reminder_text ELSE "")

\* the provider refused the message and the handler returned its error string
\* after the one attempt
C12_Witness ==
  \E t \in Tasks :
    /\ task[t].tool = "send_whatsapp_reminder" /\ task[t].pc = "returned"
    /\ task[t].tryExc = "TwilioRestException"
    /\ Len(task[t].sent) = 1 /\ task[t].sent[1].body = "Standup at 9"

\* the text is part of the string: it is empty or one of the string's pieces
Includes(s, text) ==
  text = "" \/ (~s.isJson /\ \E i \in 1..Len(s.words) : s.words[i] = text)

\* C13: after a successful send, the string send_whatsapp_reminder passes to
\* result_callback and returns includes the text of the message that was sent,
\* the reminder_text.
C13_ConfirmationEchoesText ==
  \A t \in Tasks :
    (task[t].tool = "send_whatsapp_reminder" /\ task[t].pc = "returned"
       /\ task[t].tryExc = "" /\ Len(task[t].sent) = 1) =>
      /\ Includes(task[t].passed[1], task[t].sent[1].body)
      /\ Includes(task[t].ret, task[t].sent[1].body)

\* C14: each client-connected event appends exactly one system instruction
\* to messages and then queues one LLMRunFrame, so after k connects messages
\* holds the system prompt followed by k greeting instructions, and the run
\* queued by the i-th connect finds its instruction in the context; each
\* client-disconnected event cancels the pipeline task, touches no in-flight
\* tool call and queues nothing.
C14_ConnectAndDisconnectHooks ==
  /\ [](/\ Len(messages) = 1 + connects
        /\ messages[1].role = "system"
        /\ messages[1].content # "Start by greeting the user with: 'Good morning! Are you ready to start the day?'"
        /\ \A i \in 2..Len(messages) :
             /\ messages[i].role = "system"
             /\ messages[i].content = "Start by greeting the user with: 'Good morning! Are you ready to start the day?'"
        /\ Len(queued) = connects
        /\ \A i \in 1..Len(queued) :
             queued[i].frame = "LLMRunFrame" /\ queued[i].context = i + 1
        /\ disconnects > 0 => pipeline = "cancelled")
  /\ [][connects' # connects =>
          /\ Len(messages') = Len(messages) + 1
          /\ SubSeq(messages', 1, Len(messages)) = messages
          /\ Len(queued') = Len(queued) + 1
          /\ pipeline' = pipeline /\ task' = task]_vars
  /\ [][disconnects' # disconnects =>
          /\ pipeline' = "cancelled"
          /\ task' = task
          /\ queued' = queued
          /\ messages' = messages]_vars

\* two clients connected, one disconnected while a tool call was in flight,
\* and the call went on to its result delivery
C14_Witness ==
  /\ connects = 2 /\ disconnects = 1 /\ pipeline = "cancelled"
  /\ Len(messages) = 3 /\ Len(queued) = 2
  /\ task[Main].pc = "sink"

\* C15: over any sequence of get_google_credentials calls, from any state of
\* the token file: when a call returns, the token file exists and holds exactly
\* the credential the call returned; when a call fails (unreadable token file,
\* refresh error, missing client-secret file, interactive flow error) the token
\* file is exactly as the call found it.
C15_CacheMatchesOutcome ==
  /\ [](\A t \in Tasks :
          task[t].cred.called =>
            /\ ~task[t].cred.out.raised =>
                 /\ task[t].cred.out.file.exists /\ task[t].cred.out.file.parses
                 /\ task[t].cred.out.file.creds = task[t].cred.out.creds
                 /\ ~task[t].cred.out.creds.none
            /\ task[t].cred.out.raised => task[t].cred.out.file = task[t].cred.before)
  /\ [][\A t \in Tasks :
          (task'[t].cred.called /\ task'[t].cred # task[t].cred) =>
            /\ task'[t].cred.before = tokenFile
            /\ tokenFile' = task'[t].cred.out.file]_vars

\* the second call of a sequence: the first call saved a new credential, the
\* credential expired, and the second call's refresh failed
C15_Witness ==
  \E t \in Tasks :
    /\ calls = 2 /\ task[t].cred.called
    /\ task[t].cred.out.raised /\ task[t].cred.out.exc = "RefreshError"
    /\ task[t].cred.before.creds.gen = 2
    /\ tokenFile = task[t].cred.before

CredentialEffects == {"load", "refresh", "flow", "write"}

\* the number of deliveries to result_callback among the effects
SinkCount(eff) == Cardinality({i \in 1..Len(eff) : eff[i] = "sink"})

\* C16: in functions.py, the effects of a handler come in this order: the
\* spoken acknowledgement first, then credential acquisition, then the provider
\* call, then the delivery to result_callback, after which nothing else
\* happens; a handler that returned without a failing delivery delivered
\* exactly once.
C16_EffectOrder ==
  \A t \in Tasks :
    (module = "functions" /\ task[t].pc \in {"sink", "sinkErr", "returned"}
       /\ task[t].tryExc # "SinkError") =>
      LET eff == task[t].effects
      IN /\ Len(eff) >= 2
         /\ eff[1] = "ack"
         /\ eff[Len(eff)] = "sink"
         /\ SinkCount(eff) = 1
         /\ Len(task[t].passed) = 1
         /\ \A i \in 2..Len(eff) : eff[i] # "ack"
         /\ \A i \in 2..(Len(eff) - 1) : eff[i] \in CredentialEffects \cup {"provider"}
         /\ \A i \in 1..Len(eff), j \in 1..Len(eff) :
              (eff[i] \in CredentialEffects /\ eff[j] = "provider") => i < j
         /\ Cardinality({i \in 1..Len(eff) : eff[i] = "provider"}) <= 1

\* a calendar call that refreshed the token, saved it, asked the provider and
\* delivered once
C16_Witness ==
  \E t \in Tasks :
    /\ module = "functions" /\ task[t].pc = "returned" /\ task[t].tryExc = ""
    /\ task[t].effects = <<"ack", "load", "refresh", "write", "provider", "sink">>

====
